---- MODULE Spec2Model ----
(***************************************************************************)
(* Model of script.js, the local data store of the programme management   *)
(* system: the localStorage wrapper, the cached systemData, the three     *)
(* entity collections with their id generation, the mutation handlers,    *)
(* the theme toggle, the resets and the monthly budget report.            *)
(*                                                                         *)
(* Every handler runs to completion (the page is single-threaded), so a   *)
(* handler is one action; the report's setTimeout callback is an action   *)
(* of its own.  Whether a localStorage.setItem throws (quota exceeded) is *)
(* the environment's choice: each write takes a parameter ok.             *)
(*                                                                         *)
(* Text the code inspects character by character (ids, emails, amounts,   *)
(* categories, custom programme names) is a sequence of one-character     *)
(* strings.  A JavaScript number that may be non-finite (a parsed id      *)
(* number, an amount) is a record [kind, val] with kind number, NaN,      *)
(* Infinity or null (what JSON makes of a non-finite number).  Timestamps *)
(* (new Date().toISOString()) are the token Now: nothing reads them back. *)
(***************************************************************************)
EXTENDS Integers, Sequences, FiniteSets

VARIABLES
    localStorage,   \* key -> what the stored item parses to (see EmptyStore)
    systemData,     \* the cached copy: participants, budgetItems, expenses, settings
    darkMode,       \* document.body carries the class dark-mode
    pending,        \* the callbacks setTimeout has scheduled and not yet run
    lastOp,         \* the most recent call (a handler, a callback or a function)
    \* what the most recent call gave out:
    notification,   \* the notification it showed with showNotification, if any
    console,        \* the lines it wrote with console.log and console.error
    download,       \* the rows it handed to downloadCSV
    returned        \* the value it returned

vars == <<localStorage, systemData, darkMode, notification, console, download,
          returned, pending, lastOp>>

----------------------------------------------------------------------------
(* Bounds of the model *)

MaxParticipants == 2
MaxIdNum == 3
MaxBudgetItems == 2
MaxExpenses == 2
MaxRateLen == 3
MaxProbeLen == 2

----------------------------------------------------------------------------
(* JavaScript values *)

Num(n) == [kind |-> "number", val |-> n]
NaN == [kind |-> "NaN", val |-> 0]
Infinity == [kind |-> "Infinity", val |-> 0]
Null == [kind |-> "null", val |-> 0]
Now == "Now"
Empty == <<>>

Digits == <<"0", "1", "2", "3", "4", "5", "6", "7", "8", "9">>

IsDigit(c) == \E d \in 1..10 : Digits[d] = c

DigitVal(c) == (CHOOSE d \in 1..10 : Digits[d] = c) - 1

IsSpace(c) == c \in {" ", "\t", "\n"}

RECURSIVE SkipSpaces(_)
SkipSpaces(s) ==
    IF s # <<>> /\ IsSpace(Head(s)) THEN SkipSpaces(Tail(s)) ELSE s

RECURSIVE DigitsValue(_, _)
\* the value of the longest run of decimal digits at the start of s, after acc
DigitsValue(s, acc) ==
    IF s # <<>> /\ IsDigit(Head(s))
    THEN DigitsValue(Tail(s), 10 * acc + DigitVal(Head(s)))
    ELSE acc

\* parseInt(s): leading white space, an optional sign, then the longest run of
\* digits; NaN when there is no digit
ParseInt(s) ==
    LET t == SkipSpaces(s)
        neg == t # <<>> /\ Head(t) = "-"
        u == IF t # <<>> /\ Head(t) \in {"-", "+"} THEN Tail(t) ELSE t
    IN  IF u = <<>> \/ ~IsDigit(Head(u)) THEN NaN
        ELSE IF neg THEN Num(0 - DigitsValue(u, 0)) ELSE Num(DigitsValue(u, 0))

\* parseFloat(s) on the texts the model submits: unsigned whole numbers and
\* texts without a leading digit (no fraction, no exponent)
ParseFloat(s) == ParseInt(s)

\* a > b in JavaScript for two numbers: false as soon as one of them is NaN
JsGreater(a, b) == a.kind = "number" /\ b.kind = "number" /\ a.val > b.val

StartsWith(s, pat) == Len(s) >= Len(pat) /\ SubSeq(s, 1, Len(pat)) = pat

\* s.replace(pat, ''): the first occurrence of pat is removed
RemoveFirst(s, pat) ==
    LET hits == {i \in 1..(Len(s) - Len(pat) + 1) : SubSeq(s, i, i + Len(pat) - 1) = pat}
    IN  IF hits = {} THEN s
        ELSE LET i == CHOOSE k \in hits : \A j \in hits : k <= j
             IN  SubSeq(s, 1, i - 1) \o SubSeq(s, i + Len(pat), Len(s))

RECURSIVE NumberToString(_)
\* String(n) for n >= 0
NumberToString(n) ==
    IF n < 10 THEN <<Digits[n + 1]>>
    ELSE NumberToString(n \div 10) \o <<Digits[(n % 10) + 1]>>

RECURSIVE PadStart(_, _, _)
PadStart(s, width, c) ==
    IF Len(s) >= width THEN s ELSE PadStart(<<c>> \o s, width, c)

\* s.trim()
RECURSIVE TrimEnd(_)
TrimEnd(s) ==
    IF s # <<>> /\ IsSpace(s[Len(s)]) THEN TrimEnd(SubSeq(s, 1, Len(s) - 1)) ELSE s

Trim(s) == TrimEnd(SkipSpaces(s))

\* String(x) of a number (whole and not negative when it is finite)
JsToString(x) ==
    CASE x.kind = "NaN" -> <<"N", "a", "N">>
      [] x.kind = "Infinity" -> <<"I", "n", "f", "i", "n", "i", "t", "y">>
      [] x.kind = "null" -> <<"n", "u", "l", "l">>
      [] OTHER -> NumberToString(x.val)

\* JSON.parse(JSON.stringify(x)) of a number: the non-finite ones become null
JsonNumber(x) == IF x.kind \in {"NaN", "Infinity"} THEN Null ELSE x

----------------------------------------------------------------------------
(* Texts of the program and of the forms *)

Custom == <<"c", "u", "s", "t", "o", "m">>
Skills == <<"s", "k", "i", "l", "l", "s">>
Entrepreneurship == <<"e", "n", "t", "r", "e", "p", "r", "e", "n", "e", "u", "r", "s", "h", "i", "p">>
TestId == <<"T", "E", "S", "T", "0", "0", "1">>
TestEmail == <<"t", "e", "s", "t", "@", "e", "x", "a", "m", "p", "l", "e", ".", "c", "o", "m">>
TestName == <<"T", "e", "s", "t", " ", "P", "a", "r", "t", "i", "c", "i", "p", "a", "n", "t">>
TestPhone == <<"1", "2", "3", "4", "5", "6", "7", "8", "9", "0">>
TestNotes ==
    <<"T", "e", "s", "t", " ", "p", "a", "r", "t", "i", "c", "i", "p", "a", "n", "t", " ", "f", "o", "r", " ", "d", "e", "b", "u", "g", "g", "i", "n", "g">>
AnnEmail == <<"a", "@", "b", ".", "c">>
Ann == <<"A", "n", "n">>
StartDay == <<"2", "0", "2", "5", "-", "0", "1", "-", "0", "1">>

\* what the participant form submits: a complete form with each email, and
\* the complete form with one field left out or one custom programme name
EmailInputs == {Empty, <<"a", "@", "b">>, AnnEmail, TestEmail}
CustomProgrammeInputs == {Empty, <<" ">>, <<" ", "s", "k", "i", "l", "l", "s", " ">>}

ParticipantForm(name, email, programme, customProgramme, startDate) ==
    [name |-> name, email |-> email, programme |-> programme,
     customProgramme |-> customProgramme, startDate |-> startDate]

ParticipantForms ==
    {ParticipantForm(Ann, e, Skills, Empty, StartDay) : e \in EmailInputs}
    \cup {ParticipantForm(Ann, AnnEmail, Custom, c, StartDay) : c \in CustomProgrammeInputs}
    \cup {ParticipantForm(Empty, AnnEmail, Skills, Empty, StartDay),
          ParticipantForm(Ann, AnnEmail, Empty, Empty, StartDay),
          ParticipantForm(Ann, AnnEmail, Skills, Empty, Empty)}

UndefinedValue == [kind |-> "undefined"]
NullValue == [kind |-> "null"]
Value(v) == [kind |-> "value", value |-> v]

NoNotification == [type |-> "none", message |-> <<>>]
WriteError == "Error writing to localStorage:"

----------------------------------------------------------------------------
(* The localStorage wrapper and the repositories *)

DefaultSettings == [theme |-> "light"]

NumericFields(key) ==
    CASE key = "participants" -> {"progress", "attendance", "revenue", "jobs"}
      [] key = "budgetItems" -> {"amount"}
      [] key = "expenses" -> {"amount"}
      [] OTHER -> {}

JsonRecord(r, numeric) ==
    [f \in DOMAIN r |-> IF f \in numeric THEN JsonNumber(r[f]) ELSE r[f]]

\* JSON.parse(JSON.stringify(value)) of the value kept under key
Json(key, value) ==
    IF key = "settings" THEN value
    ELSE [i \in 1..Len(value) |-> JsonRecord(value[i], NumericFields(key))]

Keys == {"participants", "budgetItems", "expenses", "settings"}

\* The program reads a key only through storage.get(key, d), always with the
\* same d for that key ([] for the collections, DefaultSettings for settings),
\* and a missing item reads as d.  The store is therefore kept as what
\* storage.get returns for each key: a missing item is kept as its default.
DefaultValue(key) == IF key = "settings" THEN DefaultSettings ELSE <<>>

EmptyStore == [k \in Keys |-> DefaultValue(k)]

\* storage.get(key, defaultValue), called with defaultValue = DefaultValue(key)
StorageGet(key, defaultValue) == localStorage[key]

\* storage.set(key, value) on the store ls; ok: localStorage.setItem did not throw
StorageSet(ls, key, value, ok) ==
    IF ok THEN [ls EXCEPT ![key] = Json(key, value)] ELSE ls

\* localStorage.removeItem(key); financeSettings is a key nothing reads
RemoveItem(ls, key) ==
    IF key \in Keys THEN [ls EXCEPT ![key] = DefaultValue(key)] ELSE ls

getParticipants == StorageGet("participants", <<>>)

getBudgetItems == StorageGet("budgetItems", <<>>)

getExpenses == StorageGet("expenses", <<>>)

\* what a save logs: console.error in storage.set when the write failed
SetLog(ok) == IF ok THEN <<>> ELSE <<WriteError>>

\* mutant: the cached copy is replaced and nothing is written
saveParticipantsCacheOnly(participants, ok) ==
    /\ systemData' = [systemData EXCEPT !.participants = participants]
    /\ localStorage' = localStorage

saveParticipants(participants, ok) ==
    /\ systemData' = [systemData EXCEPT !.participants = participants]
    /\ localStorage' = StorageSet(localStorage, "participants", participants, ok)

saveBudgetItems(budgetItems, ok) ==
    /\ systemData' = [systemData EXCEPT !.budgetItems = budgetItems]
    /\ localStorage' = StorageSet(localStorage, "budgetItems", budgetItems, ok)

saveExpenses(expenses, ok) ==
    /\ systemData' = [systemData EXCEPT !.expenses = expenses]
    /\ localStorage' = StorageSet(localStorage, "expenses", expenses, ok)

showNotification(message, type) ==
    notification' = [type |-> type, message |-> message]

\* the regular expression ^[^\s@]+@[^\s@]+\.[^\s@]+$
isValidEmail(email) ==
    \E i, j \in 1..Len(email) :
        /\ email[i] = "@"
        /\ email[j] = "."
        /\ 1 < i
        /\ i + 1 < j
        /\ j < Len(email)
        /\ \A k \in 1..Len(email) : ~IsSpace(email[k]) /\ (email[k] = "@" => k = i)

----------------------------------------------------------------------------
(* Participants *)

RECURSIVE MaxIdNumberNoStrip(_, _, _)
\* mutant: the prefix is not removed before parseInt
MaxIdNumberNoStrip(list, prefix, maxId) ==
    IF list = <<>> THEN maxId
    ELSE LET idNum == ParseInt(Head(list).id)
         IN  MaxIdNumberNoStrip(Tail(list), prefix,
                                IF JsGreater(idNum, Num(maxId)) THEN idNum.val ELSE maxId)

RECURSIVE MaxIdNumber(_, _, _)
\* the forEach of generateParticipantId and generateExpenseId: maxId after the
\* records of list, starting from maxId
MaxIdNumber(list, prefix, maxId) ==
    IF list = <<>> THEN maxId
    ELSE LET idNum == ParseInt(RemoveFirst(Head(list).id, prefix))
         IN  MaxIdNumber(Tail(list), prefix,
                         IF JsGreater(idNum, Num(maxId)) THEN idNum.val ELSE maxId)

\* the id both generators build from the collection they have read
NextId(list, prefix) ==
    prefix \o PadStart(NumberToString(MaxIdNumber(list, prefix, 0) + 1), 3, "0")

generateParticipantId == NextId(getParticipants, <<"P">>)

\* generateParticipantId() called on its own (it is a global function)
generateParticipantIdCall ==
    /\ lastOp' = "generateParticipantId"
    /\ returned' = Value(generateParticipantId)
    /\ notification' = NoNotification
    /\ console' = <<>>
    /\ download' = <<>>
    /\ UNCHANGED <<localStorage, systemData, darkMode, pending>>

\* mutant: the name is compared instead of the email
EmailExistsByName(participants, email) ==
    \E i \in 1..Len(participants) : participants[i].name = email

\* participants.find(p => p.email === email) found a record
EmailExists(participants, email) ==
    \E i \in 1..Len(participants) : participants[i].email = email

NewParticipant(id, name, email, programme, startDate) ==
    [id |-> id, name |-> name, email |-> email, phone |-> Empty,
     programme |-> programme, startDate |-> startDate, progress |-> Num(0),
     status |-> "Active", notes |-> Empty, attendance |-> Num(0),
     revenue |-> Num(0), jobs |-> Num(0), createdAt |-> Now]

\* a handler that shows an error and returns without writing the store
Rejected(message) ==
    /\ showNotification(message, "error")
    /\ console' = <<>>
    /\ UNCHANGED <<localStorage, systemData>>

\* a handler that returns without showing or writing anything
Cancelled ==
    /\ notification' = NoNotification
    /\ console' = <<>>
    /\ UNCHANGED <<localStorage, systemData>>

\* a handler called from a form or a button: it returns nothing, downloads
\* nothing, schedules nothing and leaves the theme alone
Handler(name) ==
    /\ lastOp' = name
    /\ returned' = UndefinedValue
    /\ download' = <<>>
    /\ UNCHANGED <<darkMode, pending>>

addParticipant(form, ok) ==
    LET name == form.name
        email == form.email
        programmeSel == form.programme
        customProgramme == form.customProgramme
        startDate == form.startDate
        programme == IF programmeSel = Custom THEN Trim(customProgramme) ELSE programmeSel
        participants == getParticipants
        id == generateParticipantId
    IN  /\ Handler("addParticipant")
        /\ IF programmeSel = Custom /\ (customProgramme = Empty \/ Trim(customProgramme) = Empty)
           THEN Rejected(<<"Please enter a custom programme name">>)
           ELSE IF name = Empty \/ email = Empty \/ programme = Empty \/ startDate = Empty
           THEN Rejected(<<"Please fill all required fields">>)
           ELSE IF ~isValidEmail(email)
           THEN Rejected(<<"Please enter a valid email address">>)
           ELSE IF EmailExists(participants, email)
           THEN Rejected(<<"A participant with this email already exists">>)
           ELSE /\ Len(participants) < MaxParticipants
                /\ MaxIdNumber(participants, <<"P">>, 0) < MaxIdNum
                /\ saveParticipants(
                       Append(participants, NewParticipant(id, name, email, programme, startDate)),
                       ok)
                /\ console' = SetLog(ok)
                /\ showNotification(<<"Participant ">> \o name \o <<" added successfully!">>,
                                    "success")

removeParticipant(id, confirmed, ok) ==
    LET participants == getParticipants
        filteredParticipants == SelectSeq(participants, LAMBDA p : p.id # id)
    IN  /\ Handler("removeParticipant")
        /\ IF ~confirmed
           THEN Cancelled
           ELSE IF Len(filteredParticipants) = Len(participants)
           THEN Rejected(<<"Participant not found">>)
           ELSE /\ saveParticipants(filteredParticipants, ok)
                /\ console' = SetLog(ok)
                /\ showNotification(<<"Participant removed successfully">>, "success")

TestParticipant ==
    [id |-> TestId, name |-> TestName, email |-> TestEmail, phone |-> TestPhone,
     programme |-> Entrepreneurship, startDate |-> StartDay, progress |-> Num(0),
     status |-> "Active", notes |-> TestNotes, attendance |-> Num(0),
     revenue |-> Num(0), jobs |-> Num(0), createdAt |-> Now]

addTestParticipant(ok) ==
    LET participants == getParticipants
    IN  /\ lastOp' = "addTestParticipant"
        /\ Len(participants) < MaxParticipants
        /\ saveParticipants(Append(participants, TestParticipant), ok)
        /\ console' = SetLog(ok) \o <<"Test participant added:">>
        /\ returned' = Value(TestParticipant)
        /\ notification' = NoNotification
        /\ download' = <<>>
        /\ UNCHANGED <<darkMode, pending>>

\* the index participants.find(p => p.id === participantId) stops at, 0 if none
FindById(participants, participantId) ==
    LET hits == {i \in 1..Len(participants) : participants[i].id = participantId}
    IN  IF hits = {} THEN 0 ELSE CHOOSE i \in hits : \A j \in hits : i <= j

Completed(participant) ==
    [f \in DOMAIN participant \cup {"updatedAt"} |->
        IF f = "status" THEN "Completed"
        ELSE IF f = "updatedAt" THEN Now
        ELSE participant[f]]

markParticipantCompleted(participantId, ok) ==
    LET participants == getParticipants
        at == FindById(participants, participantId)
    IN  /\ lastOp' = "markParticipantCompleted"
        /\ notification' = NoNotification
        /\ download' = <<>>
        /\ UNCHANGED <<darkMode, pending>>
        /\ IF at # 0
           THEN /\ saveParticipants([participants EXCEPT ![at] = Completed(participants[at])], ok)
                /\ console' = SetLog(ok) \o <<"Participant marked as completed:", "refreshAllPages called">>
                /\ returned' = Value(Completed(participants[at]))
           ELSE /\ console' = <<"Participant not found:">>
                /\ returned' = NullValue
                /\ UNCHANGED <<localStorage, systemData>>

\* mutant: the quotient is cut off instead of rounded
MathFloor(p, q) == p \div q

\* Math.round(p / q) for p >= 0 and q > 0: the nearest integer, a half upwards
MathRound(p, q) == (2 * p + q) \div (2 * q)

\* participants.filter(p => p.status === 'Completed').length
CompletedCount(participants) ==
    Cardinality({i \in 1..Len(participants) : participants[i].status = "Completed"})

SuccessRate(participants) ==
    IF Len(participants) = 0
    THEN 0
    ELSE MathRound(CompletedCount(participants) * 100, Len(participants))

calculateSuccessRate == SuccessRate(getParticipants)

\* calculateSuccessRate() called on its own (updateSuccessRate and the
\* dashboard call it)
calculateSuccessRateCall ==
    /\ lastOp' = "calculateSuccessRate"
    /\ returned' = Value(Num(calculateSuccessRate))
    /\ notification' = NoNotification
    /\ console' = <<>>
    /\ download' = <<>>
    /\ UNCHANGED <<localStorage, systemData, darkMode, pending>>

----------------------------------------------------------------------------
(* Budget items and expenses *)

Upper == <<"A", "B", "C", "D", "E", "F", "G", "H", "I", "J", "K", "L", "M",
           "N", "O", "P", "Q", "R", "S", "T", "U", "V", "W", "X", "Y", "Z">>

Lower == <<"a", "b", "c", "d", "e", "f", "g", "h", "i", "j", "k", "l", "m",
           "n", "o", "p", "q", "r", "s", "t", "u", "v", "w", "x", "y", "z">>

\* s.toLowerCase()
toLowerCase(s) ==
    [i \in 1..Len(s) |->
        IF \E k \in 1..Len(Upper) : Upper[k] = s[i]
        THEN Lower[CHOOSE k \in 1..Len(Upper) : Upper[k] = s[i]]
        ELSE s[i]]

\* what the budget form and the expense form submit: complete forms, and one
\* form with each required field left out
CategoryInputs == {<<"T">>, <<"t">>, <<"R">>, <<"S">>}
BudgetAmountInputs == {<<"0">>, <<"1", "0", "0">>, <<"a", "b", "c">>}
ExpenseAmountInputs == {<<"4", "0">>, <<"a", "b", "c">>}
High == <<"H", "i", "g", "h">>
Rent == <<"r", "e", "n", "t">>
Today == "Today"

BudgetForm(category, amount, priority) ==
    [category |-> category, amount |-> amount, priority |-> priority, description |-> Empty]

BudgetForms ==
    {BudgetForm(c, a, High) : c \in CategoryInputs, a \in BudgetAmountInputs}
    \cup {BudgetForm(Empty, <<"0">>, High), BudgetForm(<<"T">>, Empty, High),
          BudgetForm(<<"T">>, <<"0">>, Empty)}

ExpenseForm(category, amount, date, description) ==
    [category |-> category, amount |-> amount, date |-> date, description |-> description]

ExpenseForms ==
    {ExpenseForm(c, a, StartDay, Rent) : c \in {<<"T">>, <<"R">>}, a \in ExpenseAmountInputs}
    \cup {ExpenseForm(Empty, <<"4", "0">>, StartDay, Rent),
          ExpenseForm(<<"T">>, Empty, StartDay, Rent),
          ExpenseForm(<<"T">>, <<"4", "0">>, Empty, Rent),
          ExpenseForm(<<"T">>, <<"4", "0">>, StartDay, Empty)}

\* mutant: the categories are compared as typed
CategoryExistsCaseSensitive(budgetItems, category) ==
    \E i \in 1..Len(budgetItems) : budgetItems[i].category = category

\* budgetItems.find(item => item.category.toLowerCase() === category.toLowerCase())
CategoryExists(budgetItems, category) ==
    \E i \in 1..Len(budgetItems) :
        toLowerCase(budgetItems[i].category) = toLowerCase(category)

addBudgetItem(form, ok) ==
    LET category == form.category
        amount == form.amount
        priority == form.priority
        budgetItems == getBudgetItems
        newBudgetItem == [category |-> category, amount |-> ParseFloat(amount),
                          priority |-> priority, description |-> form.description,
                          dateAdded |-> Today, createdAt |-> Now]
    IN  /\ Handler("addBudgetItem")
        /\ IF category = Empty \/ amount = Empty \/ priority = Empty
           THEN Rejected(<<"Please fill all required fields">>)
           ELSE IF CategoryExists(budgetItems, category)
           THEN Rejected(<<"A budget item with this category already exists">>)
           ELSE /\ Len(budgetItems) < MaxBudgetItems
                /\ saveBudgetItems(Append(budgetItems, newBudgetItem), ok)
                /\ console' = SetLog(ok)
                /\ showNotification(<<"Budget item \"">> \o category \o <<"\" added successfully!">>,
                                    "success")

\* budgetItems.splice(index, 1) for 0 <= index < length (index counts from 0)
Splice(list, index) ==
    SubSeq(list, 1, index) \o SubSeq(list, index + 2, Len(list))

\* mutant: an index equal to the length passes
IndexOutOfRangeOffByOne(index, budgetItems) == index < 0 \/ index > Len(budgetItems)

\* index < 0 || index >= budgetItems.length
IndexOutOfRange(index, budgetItems) == index < 0 \/ index >= Len(budgetItems)

removeBudgetItem(index, confirmed, ok) ==
    LET budgetItems == getBudgetItems
    IN  /\ Handler("removeBudgetItem")
        /\ IF ~confirmed
           THEN Cancelled
           ELSE IF IndexOutOfRange(index, budgetItems)
           THEN Rejected(<<"Budget item not found">>)
           ELSE /\ saveBudgetItems(Splice(budgetItems, index), ok)
                /\ console' = SetLog(ok)
                /\ showNotification(<<"Budget item removed successfully">>, "success")

\* formatCurrency(amount) of a whole amount below 1000, or of NaN
formatCurrency(amount) ==
    IF amount.kind = "number"
    THEN <<"R">> \o NumberToString(amount.val) \o <<",", "0", "0">>
    ELSE <<"R">> \o JsToString(amount)

generateExpenseId == NextId(getExpenses, <<"E", "X", "P">>)

\* generateExpenseId() called on its own (it is a global function)
generateExpenseIdCall ==
    /\ lastOp' = "generateExpenseId"
    /\ returned' = Value(generateExpenseId)
    /\ notification' = NoNotification
    /\ console' = <<>>
    /\ download' = <<>>
    /\ UNCHANGED <<localStorage, systemData, darkMode, pending>>

addExpense(form, ok) ==
    LET category == form.category
        amount == form.amount
        date == form.date
        description == form.description
        expenses == getExpenses
        newExpense == [id |-> generateExpenseId, category |-> category,
                       amount |-> ParseFloat(amount), date |-> date,
                       description |-> description, createdAt |-> Now]
    IN  /\ Handler("addExpense")
        /\ IF category = Empty \/ amount = Empty \/ date = Empty \/ description = Empty
           THEN Rejected(<<"Please fill all required fields">>)
           ELSE /\ Len(expenses) < MaxExpenses
                /\ saveExpenses(Append(expenses, newExpense), ok)
                /\ console' = SetLog(ok)
                /\ showNotification(<<"Expense of ">> \o formatCurrency(newExpense.amount)
                                        \o <<" added successfully!">>,
                                    "success")

----------------------------------------------------------------------------
(* The monthly budget report *)

\* a + b where a is a finite number and b a stored amount (null counts as 0)
JsAdd(a, b) == IF b.kind = "number" THEN Num(a.val + b.val) ELSE a

RECURSIVE Spent(_, _, _)
\* expenses.filter(e => e.category === category).reduce((sum, e) => sum + e.amount, sum)
Spent(expenses, category, sum) ==
    IF expenses = <<>> THEN sum
    ELSE Spent(Tail(expenses), category,
               IF Head(expenses).category = category
               THEN JsAdd(sum, Head(expenses).amount)
               ELSE sum)

\* item.amount - spent for a finite spent (null counts as 0)
JsSubtract(amount, spent) ==
    IF amount.kind = "number" THEN Num(amount.val - spent.val) ELSE Num(0 - spent.val)

\* Math.round((spent / amount) * 100) for spent >= 0 and amount >= 0 or null
UtilizationNumber(spent, amount) ==
    LET a == IF amount.kind = "number" THEN amount.val ELSE 0
    IN  IF a = 0
        THEN IF spent.val = 0 THEN NaN ELSE Infinity
        ELSE Num((200 * spent.val + a) \div (2 * a))

ReportRow(item, expenses) ==
    LET spent == Spent(expenses, item.category, Num(0))
    IN  [Category |-> item.category,
         Budget |-> item.amount,
         Spent |-> spent,
         Remaining |-> JsSubtract(item.amount, spent),
         Utilization |-> JsToString(UtilizationNumber(spent, item.amount)) \o <<"%">>]

generateMonthlyReport ==
    /\ lastOp' = "generateMonthlyReport"
    /\ showNotification(<<"Generating monthly budget report...">>, "info")
    /\ pending' = pending \cup {"monthlyReport"}
    /\ console' = <<>>
    /\ download' = <<>>
    /\ returned' = UndefinedValue
    /\ UNCHANGED <<localStorage, systemData, darkMode>>

\* the callback generateMonthlyReport scheduled, with downloadCSV
monthlyReportCallback ==
    LET budgetItems == getBudgetItems
        expenses == getExpenses
        reportData == [i \in 1..Len(budgetItems) |-> ReportRow(budgetItems[i], expenses)]
    IN  /\ "monthlyReport" \in pending
        /\ pending' = pending \ {"monthlyReport"}
        /\ lastOp' = "monthlyReportCallback"
        /\ IF Len(reportData) = 0
           THEN /\ showNotification(<<"No data available for export">>, "error")
                /\ download' = <<>>
           ELSE /\ showNotification(<<"CSV file downloaded successfully!">>, "success")
                /\ download' = reportData
        /\ console' = <<>>
        /\ returned' = UndefinedValue
        /\ UNCHANGED <<localStorage, systemData, darkMode>>

----------------------------------------------------------------------------
(* Theme, reset and page load *)

\* saveData(): four independent writes of the cached copies
saveData(ok1, ok2, ok3, ok4, data) ==
    StorageSet(
        StorageSet(
            StorageSet(
                StorageSet(localStorage, "participants", data.participants, ok1),
                "budgetItems", data.budgetItems, ok2),
            "expenses", data.expenses, ok3),
        "settings", data.settings, ok4)

toggleTheme(ok1, ok2, ok3, ok4) ==
    LET isDark == ~darkMode
        data == [systemData EXCEPT !.settings = [theme |-> IF isDark THEN "dark" ELSE "light"]]
    IN  /\ lastOp' = "toggleTheme"
        /\ darkMode' = isDark
        /\ systemData' = data
        /\ localStorage' = saveData(ok1, ok2, ok3, ok4, data)
        /\ console' = SetLog(ok1) \o SetLog(ok2) \o SetLog(ok3) \o SetLog(ok4)
        /\ notification' = NoNotification
        /\ download' = <<>>
        /\ returned' = UndefinedValue
        /\ UNCHANGED pending

EmptyData ==
    [participants |-> <<>>, budgetItems |-> <<>>, expenses |-> <<>>,
     settings |-> DefaultSettings]

clearAllData ==
    /\ lastOp' = "clearAllData"
    /\ localStorage' =
           RemoveItem(RemoveItem(RemoveItem(RemoveItem(RemoveItem(localStorage,
               "participants"), "budgetItems"), "expenses"), "settings"), "financeSettings")
    /\ systemData' = EmptyData
    /\ console' = <<"All data cleared - system reset to clean state">>
    /\ notification' = NoNotification
    /\ download' = <<>>
    /\ returned' = UndefinedValue
    /\ UNCHANGED <<darkMode, pending>>

\* systemData as initializeSystemData() reads it from the store ls
LoadedData(ls) ==
    [participants |-> ls["participants"], budgetItems |-> ls["budgetItems"],
     expenses |-> ls["expenses"], settings |-> ls["settings"]]

\* the script runs in a fresh page over the store ls: the declaration of
\* systemData, then initializeSystemData() and loadTheme() on DOMContentLoaded
Loaded(ls) ==
    /\ localStorage' = ls
    /\ systemData' = LoadedData(ls)
    /\ darkMode' = (LoadedData(ls).settings.theme = "dark")
    /\ notification' = NoNotification
    /\ console' = <<"Programme Management System loaded successfully">>
    /\ download' = <<>>
    /\ returned' = UndefinedValue
    /\ pending' = {}

\* the user reloads the page
pageLoad ==
    /\ lastOp' = "pageLoad"
    /\ Loaded(localStorage)

\* localStorage.clear() and window.location.reload()
resetTo2025Data ==
    /\ lastOp' = "resetTo2025Data"
    /\ Loaded(EmptyStore)

----------------------------------------------------------------------------
(* Specifications *)

ParticipantIdInputs ==
    {<<"P">> \o PadStart(NumberToString(n), 3, "0") : n \in 1..MaxIdNum} \cup {TestId}

Init ==
    /\ localStorage = EmptyStore
    /\ systemData = EmptyData
    /\ darkMode = FALSE
    /\ notification = NoNotification
    /\ console = <<"Programme Management System loaded successfully">>
    /\ download = <<>>
    /\ returned = UndefinedValue
    /\ pending = {}
    /\ lastOp = "pageLoad"

AddParticipant == \E form \in ParticipantForms, ok \in BOOLEAN : addParticipant(form, ok)

RemoveParticipant ==
    \E id \in ParticipantIdInputs, confirmed \in BOOLEAN, ok \in BOOLEAN :
        removeParticipant(id, confirmed, ok)

AddTestParticipant == \E ok \in BOOLEAN : addTestParticipant(ok)

MarkParticipantCompleted ==
    \E id \in ParticipantIdInputs, ok \in BOOLEAN : markParticipantCompleted(id, ok)

AddBudgetItem == \E form \in BudgetForms, ok \in BOOLEAN : addBudgetItem(form, ok)

RemoveBudgetItem ==
    \E index \in (0 - 1)..MaxBudgetItems, confirmed \in BOOLEAN, ok \in BOOLEAN :
        removeBudgetItem(index, confirmed, ok)

AddExpense == \E form \in ExpenseForms, ok \in BOOLEAN : addExpense(form, ok)

ToggleTheme ==
    \E ok1 \in BOOLEAN, ok2 \in BOOLEAN, ok3 \in BOOLEAN, ok4 \in BOOLEAN :
        toggleTheme(ok1, ok2, ok3, ok4)

Next ==
    \/ AddParticipant
    \/ RemoveParticipant
    \/ AddTestParticipant
    \/ MarkParticipantCompleted
    \/ AddBudgetItem
    \/ RemoveBudgetItem
    \/ AddExpense
    \/ generateMonthlyReport
    \/ monthlyReportCallback
    \/ ToggleTheme
    \/ clearAllData
    \/ pageLoad
    \/ resetTo2025Data
    \/ generateParticipantIdCall
    \/ generateExpenseIdCall
    \/ calculateSuccessRateCall

Spec == Init /\ [][Next]_vars

\* the participant operations alone, with clearAllData and page loads
ParticipantNext ==
    \/ AddParticipant
    \/ RemoveParticipant
    \/ AddTestParticipant
    \/ MarkParticipantCompleted
    \/ clearAllData
    \/ pageLoad
    \/ resetTo2025Data

SpecParticipants == Init /\ [][ParticipantNext]_vars

\* the budget operations alone, with clearAllData and page loads
BudgetNext ==
    \/ AddBudgetItem
    \/ RemoveBudgetItem
    \/ clearAllData
    \/ pageLoad

SpecBudget == Init /\ [][BudgetNext]_vars

\* the budget operations with the theme toggle, which saves every cached copy
ThemeNext ==
    \/ AddBudgetItem
    \/ RemoveBudgetItem
    \/ ToggleTheme
    \/ clearAllData
    \/ pageLoad

SpecTheme == Init /\ [][ThemeNext]_vars

\* the budget form with one amount: a complete form for each category, and
\* forms with a required field left out
CategoryForms ==
    {BudgetForm(c, <<"1", "0", "0">>, High) : c \in CategoryInputs}
    \cup {BudgetForm(Empty, <<"1", "0", "0">>, High), BudgetForm(<<"T">>, Empty, High)}

AddBudgetItemCategory ==
    \E form \in CategoryForms, ok \in BOOLEAN : addBudgetItem(form, ok)

\* the operations that write the budget items, told apart by category alone
CategoriesNext ==
    \/ AddBudgetItemCategory
    \/ RemoveBudgetItem
    \/ ToggleTheme
    \/ clearAllData
    \/ pageLoad

SpecCategories == Init /\ [][CategoriesNext]_vars

\* budget items, expenses and the monthly report
ReportNext ==
    \/ AddBudgetItem
    \/ AddExpense
    \/ generateMonthlyReport
    \/ monthlyReportCallback
    \/ clearAllData

SpecReport == Init /\ [][ReportNext]_vars

\* a few forms of each kind: a complete one, one that fails validation, and
\* amounts that are not numbers
WrittenParticipantForms ==
    {ParticipantForm(Ann, AnnEmail, Skills, Empty, StartDay),
     ParticipantForm(Ann, Empty, Skills, Empty, StartDay)}

WrittenBudgetForms ==
    {BudgetForm(<<"T">>, <<"1", "0", "0">>, High), BudgetForm(<<"T">>, <<"a", "b", "c">>, High),
     BudgetForm(<<"R">>, <<"1", "0", "0">>, High), BudgetForm(Empty, <<"1", "0", "0">>, High)}

WrittenExpenseForms ==
    {ExpenseForm(<<"T">>, <<"4", "0">>, StartDay, Rent),
     ExpenseForm(<<"T">>, <<"a", "b", "c">>, StartDay, Rent),
     ExpenseForm(Empty, <<"4", "0">>, StartDay, Rent)}

\* every operation that writes the store or the cached copies, in one tab,
\* with no localStorage write failing
WrittenNext ==
    \/ \E form \in WrittenParticipantForms : addParticipant(form, TRUE)
    \/ \E id \in ParticipantIdInputs, confirmed \in BOOLEAN :
           removeParticipant(id, confirmed, TRUE)
    \/ addTestParticipant(TRUE)
    \/ \E id \in ParticipantIdInputs : markParticipantCompleted(id, TRUE)
    \/ \E form \in WrittenBudgetForms : addBudgetItem(form, TRUE)
    \/ \E index \in (0 - 1)..MaxBudgetItems, confirmed \in BOOLEAN :
           removeBudgetItem(index, confirmed, TRUE)
    \/ \E form \in WrittenExpenseForms : addExpense(form, TRUE)
    \/ toggleTheme(TRUE, TRUE, TRUE, TRUE)
    \/ clearAllData
    \/ pageLoad
    \/ resetTo2025Data

SpecWritten == Init /\ [][WrittenNext]_vars

----------------------------------------------------------------------------
(* Id generation over collections the program can hold: participants with *)
(* increasing P numbers (records can be removed, so there are gaps) and   *)
(* test participants anywhere; expenses numbered 1..n (none is removed).   *)

PId(n) == <<"P">> \o PadStart(NumberToString(n), 3, "0")

ExpId(n) == <<"E", "X", "P">> \o PadStart(NumberToString(n), 3, "0")

\* 0 stands for the test participant
ProbeNumbers == {0, 1, 5, 10, 999}

ProbeEmail(k) == <<Lower[k]>> \o <<"@", "b", ".", "c">>

ProbeParticipants ==
    LET shapes == UNION {[1..n -> ProbeNumbers] : n \in 0..MaxProbeLen}
        increasing(f) ==
            \A i, j \in DOMAIN f : (i < j /\ f[i] # 0 /\ f[j] # 0) => f[i] < f[j]
    IN  {[k \in DOMAIN f |->
            IF f[k] = 0 THEN TestParticipant
            ELSE NewParticipant(PId(f[k]), Ann, ProbeEmail(k), Skills, StartDay)] :
         f \in {g \in shapes : increasing(g)}}

ProbeExpenses ==
    {[k \in 1..n |-> [id |-> ExpId(k), category |-> <<"T">>, amount |-> Num(40),
                      date |-> StartDay, description |-> Rent, createdAt |-> Now]] :
     n \in 0..(MaxProbeLen + 1)}

InitNextId ==
    /\ \E ps \in ProbeParticipants, es \in ProbeExpenses :
           localStorage = [EmptyStore EXCEPT !["participants"] = ps, !["expenses"] = es]
    /\ systemData = LoadedData(localStorage)
    /\ darkMode = FALSE
    /\ notification = NoNotification
    /\ console = <<"Programme Management System loaded successfully">>
    /\ download = <<>>
    /\ returned = UndefinedValue
    /\ pending = {}
    /\ lastOp = "pageLoad"

NextIdNext ==
    \/ generateParticipantIdCall
    \/ generateExpenseIdCall

SpecNextId == InitNextId /\ [][NextIdNext]_vars

----------------------------------------------------------------------------
(* The success rate over collections the program can hold: participants   *)
(* P001..P00n and test participants, each Active or already Completed.     *)

RateProbeKinds == {"active", "completed", "testActive", "testCompleted"}

RateProbeParticipants ==
    LET record(k, kind) ==
            LET base == IF kind \in {"testActive", "testCompleted"}
                        THEN TestParticipant
                        ELSE NewParticipant(PId(k), Ann, ProbeEmail(k), Skills, StartDay)
            IN  IF kind \in {"completed", "testCompleted"} THEN Completed(base) ELSE base
    IN  {[k \in DOMAIN f |-> record(k, f[k])] :
         f \in UNION {[1..n -> RateProbeKinds] : n \in 0..MaxRateLen}}

InitSuccessRate ==
    /\ \E ps \in RateProbeParticipants :
           localStorage = [EmptyStore EXCEPT !["participants"] = ps]
    /\ systemData = LoadedData(localStorage)
    /\ darkMode = FALSE
    /\ notification = NoNotification
    /\ console = <<"Programme Management System loaded successfully">>
    /\ download = <<>>
    /\ returned = UndefinedValue
    /\ pending = {}
    /\ lastOp = "pageLoad"

SuccessRateNext ==
    \/ calculateSuccessRateCall
    \/ MarkParticipantCompleted

SpecSuccessRate == InitSuccessRate /\ [][SuccessRateNext]_vars

----------------------------------------------------------------------------
(* Claims *)

\* C1: no two records of the persisted participants collection have the same
\* email, in every state the participant operations and clearAllData reach.
C1_EmailsUnique ==
    \A i, j \in 1..Len(localStorage["participants"]) :
        i # j => localStorage["participants"][i].email # localStorage["participants"][j].email

\* C2: no two records of the persisted participants collection have the same
\* id, and the id generateParticipantId would produce is the id of no record.
C2_IdsUnique ==
    /\ \A i, j \in 1..Len(localStorage["participants"]) :
           i # j => localStorage["participants"][i].id # localStorage["participants"][j].id
    /\ \A i \in 1..Len(localStorage["participants"]) :
           localStorage["participants"][i].id # generateParticipantId
Ids(list) == [i \in 1..Len(list) |-> list[i].id]

HasEmail(list, email) == \E i \in 1..Len(list) : list[i].email = email

\* C3: an addParticipant whose email is already in the persisted collection
\* shows an error and changes neither the persisted store nor the cached
\* systemData, and the ids in use stay the same (the next id is computed
\* from them, there is no counter).
C3_DuplicateEmailRejected ==
    [][\A form \in ParticipantForms, ok \in BOOLEAN :
          (/\ lastOp' = "addParticipant"
           /\ HasEmail(localStorage["participants"], form.email)
           /\ addParticipant(form, ok))
              => /\ localStorage' = localStorage
                 /\ systemData' = systemData
                 /\ notification'.type = "error"
                 /\ Ids(localStorage'["participants"]) = Ids(localStorage["participants"])]_vars

C3_Witness ==
    /\ lastOp = "addParticipant"
    /\ notification = [type |-> "error",
                       message |-> <<"A participant with this email already exists">>]
    /\ Len(localStorage["participants"]) = 2

\* the forms with every required field present, a well-formed email and a
\* programme (a custom one with a name that is not blank)
C4_Complete(form) ==
    /\ form.name # Empty
    /\ form.email \in {AnnEmail, TestEmail}
    /\ form.startDate # Empty
    /\ \/ form.programme = Skills
       \/ form.programme = Custom /\ form.customProgramme \notin {Empty, <<" ">>}

\* the persisted collection after the step is the one before it with one more
\* record at the end, which has the form's email and the fresh values
C4_Appended(form) ==
    LET before == localStorage["participants"]
        after == localStorage'["participants"]
    IN  /\ Len(after) = Len(before) + 1
        /\ SubSeq(after, 1, Len(before)) = before
        /\ after[Len(after)].email = form.email
        /\ after[Len(after)].status = "Active"
        /\ after[Len(after)].progress = Num(0)
        /\ after[Len(after)].attendance = Num(0)
        /\ after[Len(after)].revenue = Num(0)
        /\ after[Len(after)].jobs = Num(0)

\* C4 as claimed: every addParticipant with a complete form and an unused
\* email makes the collection read back one record longer, the new record
\* last, with that email, status Active, progress 0 and zero counters.
C4_AddParticipantAppends ==
    [][\A form \in ParticipantForms, ok \in BOOLEAN :
          (/\ lastOp' = "addParticipant"
           /\ C4_Complete(form)
           /\ ~HasEmail(localStorage["participants"], form.email)
           /\ addParticipant(form, ok))
              => C4_Appended(form)]_vars

\* C4 amended: the same when the storage write succeeds; when it fails the
\* collection read back is the one before the call.
C4_AddParticipantAppendsWhenWritten ==
    [][\A form \in ParticipantForms, ok \in BOOLEAN :
          (/\ lastOp' = "addParticipant"
           /\ C4_Complete(form)
           /\ ~HasEmail(localStorage["participants"], form.email)
           /\ addParticipant(form, ok))
              => IF ok THEN C4_Appended(form)
                 ELSE localStorage'["participants"] = localStorage["participants"]]_vars

C4_Witness ==
    /\ lastOp = "addParticipant"
    /\ notification.type = "success"
    /\ console = <<>>
    /\ Len(localStorage["participants"]) = 2
    /\ localStorage["participants"][2].email = AnnEmail

RECURSIVE DecimalValue(_)
DecimalValue(s) ==
    IF s = <<>> THEN 0
    ELSE 10 * DecimalValue(SubSeq(s, 1, Len(s) - 1)) + DigitVal(s[Len(s)])

\* the number after the prefix, 0 for an id that is not the prefix followed
\* by digits only
SuffixNumber(id, prefix) ==
    LET rest == SubSeq(id, Len(prefix) + 1, Len(id))
    IN  IF StartsWith(id, prefix) /\ rest # <<>> /\ (\A i \in 1..Len(rest) : IsDigit(rest[i]))
        THEN DecimalValue(rest)
        ELSE 0

MaxSuffix(ids, prefix) ==
    LET all == {SuffixNumber(ids[i], prefix) : i \in 1..Len(ids)} \cup {0}
    IN  CHOOSE m \in all : \A x \in all : x <= m

ThreeDigits(n) ==
    IF n < 10 THEN <<"0", "0", Digits[n + 1]>>
    ELSE IF n < 100 THEN <<"0", Digits[(n \div 10) + 1], Digits[(n % 10) + 1]>>
    ELSE NumberToString(n)

ExpectedNextId(ids, prefix) == prefix \o ThreeDigits(MaxSuffix(ids, prefix) + 1)

\* C5: generateParticipantId and generateExpenseId return the prefix followed
\* by (max + 1) padded to 3 digits, max being the largest numeric suffix of
\* the collection's ids and ids without a numeric suffix counting as 0:
\* P001 for no participants, P006 for the ids P001 and P005.
C5_NextId ==
    /\ lastOp = "generateParticipantId" =>
           /\ returned = Value(ExpectedNextId(Ids(localStorage["participants"]), <<"P">>))
           /\ localStorage["participants"] = <<>> => returned = Value(<<"P", "0", "0", "1">>)
           /\ Ids(localStorage["participants"]) = <<PId(1), PId(5)>>
                  => returned = Value(<<"P", "0", "0", "6">>)
    /\ lastOp = "generateExpenseId" =>
           /\ returned = Value(ExpectedNextId(Ids(localStorage["expenses"]), <<"E", "X", "P">>))
           /\ localStorage["expenses"] = <<>> => returned = Value(<<"E", "X", "P", "0", "0", "1">>)

C5_Witness ==
    /\ lastOp = "generateParticipantId"
    /\ Ids(localStorage["participants"]) = <<TestId, PId(5)>>
    /\ returned = Value(<<"P", "0", "0", "6">>)
\* C6: in a mutation that reaches its storage.set, a failed write (set
\* returns false) leaves the store as it was, and after a successful one
\* (set returns true) storage.get returns a value equal to the one written,
\* which is the value the save left in systemData.
C6_SetThenGet ==
    [][/\ \A form \in BudgetForms, ok \in BOOLEAN :
             (/\ lastOp' = "addBudgetItem"
              /\ notification'.type = "success"
              /\ addBudgetItem(form, ok))
                 => IF ok THEN localStorage'["budgetItems"] = systemData'.budgetItems
                    ELSE localStorage' = localStorage
       /\ \A form \in ExpenseForms, ok \in BOOLEAN :
             (/\ lastOp' = "addExpense"
              /\ notification'.type = "success"
              /\ addExpense(form, ok))
                 => IF ok THEN localStorage'["expenses"] = systemData'.expenses
                    ELSE localStorage' = localStorage]_vars

\* C7: a mutation operation whose storage write failed shows an error
\* notification, never a success one.
C7_WriteFailureReported ==
    (/\ lastOp \in {"addParticipant", "removeParticipant", "addBudgetItem",
                    "removeBudgetItem", "addExpense"}
     /\ \E i \in 1..Len(console) : console[i] = WriteError)
        => notification.type = "error"

\* list without the item at position index, counted from 0
WithoutAt(list, index) ==
    [k \in 1..(Len(list) - 1) |-> IF k <= index THEN list[k] ELSE list[k + 1]]

C9_UtilizationFinite ==
    lastOp = "monthlyReportCallback" =>
        \A i \in 1..Len(download) :
            /\ download[i].Utilization # <<"N", "a", "N", "%">>
            /\ download[i].Utilization # <<"I", "n", "f", "i", "n", "i", "t", "y", "%">>
            /\ (download[i].Budget.kind = "number" /\ download[i].Budget.val > 0) =>
                   download[i].Utilization =
                       NumberToString((200 * download[i].Spent.val + download[i].Budget.val)
                                          \div (2 * download[i].Budget.val)) \o <<"%">>

\* C10: every persisted budget item and expense has a numeric amount (a form
\* whose amount is not a number appends nothing).
C10_AmountsNumeric ==
    /\ \A i \in 1..Len(localStorage["budgetItems"]) :
           localStorage["budgetItems"][i].amount.kind = "number"
    /\ \A i \in 1..Len(localStorage["expenses"]) :
           localStorage["expenses"][i].amount.kind = "number"

\* two texts are the same category when they differ at most in the case of
\* their letters
SameCategory(a, b) ==
    /\ Len(a) = Len(b)
    /\ \A i \in 1..Len(a) :
           \/ a[i] = b[i]
           \/ \E k \in 1..Len(Upper) : {a[i], b[i]} = {Upper[k], Lower[k]}

CategoriesUnique(list) ==
    \A i, j \in 1..Len(list) :
        SameCategory(list[i].category, list[j].category) => i = j

Collides(list, category) ==
    \E i \in 1..Len(list) : SameCategory(list[i].category, category)

\* C11: in every state reached by addBudgetItem, removeBudgetItem, toggleTheme
\* and clearAllData (and page loads) no two persisted budget items have the
\* same category up to case, and an addBudgetItem whose category is, up to
\* case, the category of a persisted item leaves the persisted and the cached
\* collection as they were.
C11_CategoriesUnique ==
    /\ [](CategoriesUnique(localStorage["budgetItems"]))
    /\ [][\A form \in CategoryForms, ok \in BOOLEAN :
              (/\ lastOp' = "addBudgetItem"
               /\ Collides(localStorage["budgetItems"], form.category)
               /\ addBudgetItem(form, ok))
                  => /\ localStorage' = localStorage
                     /\ systemData' = systemData]_vars

\* a colliding addBudgetItem was rejected after a theme toggle had saved the
\* cached copies, with two items persisted
C11_Witness ==
    /\ lastOp = "addBudgetItem"
    /\ notification.type = "error"
    /\ notification.message = <<"A budget item with this category already exists">>
    /\ Len(localStorage["budgetItems"]) = 2
    /\ localStorage["settings"].theme = "dark"

\* round(100 * completed / total): the integer nearest to the quotient, the
\* upper one of two equally near; 0 for an empty collection
ExpectedRate(completed, total) ==
    IF total = 0
    THEN 0
    ELSE CHOOSE r \in 0..100 :
             /\ 2 * r * total - total <= 200 * completed
             /\ 200 * completed < 2 * r * total + total

NumberCompleted(list) ==
    Cardinality({i \in 1..Len(list) : list[i].status = "Completed"})

C13_RemoveParticipant ==
    [][\A id \in ParticipantIdInputs :
          LET list == localStorage["participants"]
          IN  (/\ lastOp' = "removeParticipant"
               /\ removeParticipant(id, TRUE, TRUE))
                  => IF \E k \in 1..Len(list) : list[k].id = id
                     THEN \E i \in 1..Len(list) :
                              /\ list[i].id = id
                              /\ localStorage'["participants"] = WithoutAt(list, i - 1)
                     ELSE /\ notification'.type = "error"
                          /\ localStorage' = localStorage
                          /\ systemData' = systemData]_vars

\* C14: in every state reached in one tab by operations none of whose writes
\* failed, each cached collection equals the collection persisted under its
\* key, as getParticipants, getBudgetItems and getExpenses return it.
C14_CacheCoherent ==
    /\ systemData.participants = getParticipants
    /\ systemData.budgetItems = getBudgetItems
    /\ systemData.expenses = getExpenses

\* C15: toggleTheme leaves the persisted participants, budget items and
\* expenses as they were, also in states reached after a write had failed.
C15_ToggleThemeFrame ==
    [][(lastOp' = "toggleTheme")
          => /\ localStorage'["participants"] = localStorage["participants"]
             /\ localStorage'["budgetItems"] = localStorage["budgetItems"]
             /\ localStorage'["expenses"] = localStorage["expenses"]]_vars

====
